---- MODULE Spec2Model ----
(***************************************************************************)
(* Model of ps3/circuit2/circuit2.py: the wire-crossing verifier and the   *)
(* AVL-based RangeIndex it drives.                                         *)
(*                                                                         *)
(* The heap of BSTnode objects is a set of functions over node identities  *)
(* (left, right, parent, height, number_below, nodekey); None is Null.     *)
(* A Python exception is the field err of the heap record an operation     *)
(* returns: once err is set, the remaining statements of the operation do  *)
(* not run, and the heap keeps what the statements before it wrote.        *)
(***************************************************************************)
EXTENDS Integers, Sequences, FiniteSets, TLC

\* ------------------------------------------------------------------ bounds
MaxNodes == 4      \* BSTnode objects alive at the same time
MaxWires == 4      \* wires whose keys the index is given: ids 0 .. MaxWires-1
MaxX == 2          \* wire x coordinates are 0 .. MaxX
MaxY == 1          \* wire y coordinates are 0 .. MaxY
MaxWireCalls == 2  \* Wire objects ever constructed (calls of next_object_id)
MaxTrace == 3      \* entries the calls on a TracedRangeIndex append to its trace

\* ------------------------------------------------------- program constants
LowWireId == -1000000000
HighWireId == 1000000000

Null == 0
Nodes == 1..MaxNodes
NoErr == "ok"
AttributeError == "AttributeError"
NonTermination == "NonTermination"
ValueError == "ValueError"
RuntimeError == "RuntimeError"
LoopFuel == 2 * MaxNodes + 4

VARIABLES
    \* RangeIndex: root and the fields of the BSTnode objects
    root, left, right, parent, height, number_below, nodekey, data,
    \* WireLayer.wires and Wire._next_id
    wires, next_id,
    \* CrossVerifier: whether one was constructed, and its fields
    made, events, performed, crossings,
    \* the trace list of a TracedRangeIndex or TracedCrossVerifier
    trace,
    \* what the last call returned or raised
    ret

ivars == <<root, left, right, parent, height, number_below, nodekey, data>>
lvars == <<wires, next_id>>
cvars == <<made, events, performed, crossings, trace>>
vars == <<ivars, lvars, cvars, ret>>

Max(a, b) == IF a >= b THEN a ELSE b

\* ------------------------------------------------------------ KeyWirePair
KeyWirePair(k, id) == [key |-> k, wire_id |-> id]
KeyWirePairL(k) == [key |-> k, wire_id |-> LowWireId]
\* A high sentinel that carries the id of the first wire.
KeyWirePairHFirst(k) == [key |-> k, wire_id |-> 0]
KeyWirePairH(k) == [key |-> k, wire_id |-> HighWireId]

KeyLt(a, b) == a.key < b.key \/ (a.key = b.key /\ a.wire_id < b.wire_id)
KeyLe(a, b) == a.key < b.key \/ (a.key = b.key /\ a.wire_id <= b.wire_id)
KeyGt(a, b) == a.key > b.key \/ (a.key = b.key /\ a.wire_id > b.wire_id)
KeyGe(a, b) == a.key > b.key \/ (a.key = b.key /\ a.wire_id >= b.wire_id)
KeyEq(a, b) == a.key = b.key /\ a.wire_id = b.wire_id
KeyNe(a, b) == a.key # b.key /\ a.wire_id # b.wire_id

NoKey == [key |-> -1, wire_id |-> -1]
\* One key per wire, as the sweep builds them: wire ids are unique, two wires
\* share a coordinate, and the coordinates fall as the ids rise.
WireIds == 0..(MaxWires - 1)
KeyCoord(id) == (MaxWires - 1 - id) \div 2
Coords == {KeyCoord(id) : id \in WireIds}
Keys == {KeyWirePair(KeyCoord(id), id) : id \in WireIds}

\* ------------------------------------------------------------ the heap
\* The heap as one record, so that an operation is a function from heaps to
\* heaps.
Heap == [root |-> root, left |-> left, right |-> right, parent |-> parent,
         height |-> height, number_below |-> number_below,
         nodekey |-> nodekey, err |-> NoErr]

\* The objects the program can still reach: those referenced, over any chain
\* of left, right and parent links, from the index's root.
RECURSIVE LiveFrom(_, _, _)
LiveFrom(h, S, fuel) ==
    LET T == (S \cup {h.left[n] : n \in S} \cup {h.right[n] : n \in S}
                \cup {h.parent[n] : n \in S}) \ {Null}
    IN  IF T = S \/ fuel = 0 THEN S ELSE LiveFrom(h, T, fuel - 1)

LiveOf(h) == IF h.root = Null THEN {} ELSE LiveFrom(h, {h.root}, MaxNodes)

\* An object nothing references any more is freed, and its identity may be
\* given to a later BSTnode.
Keep(live, f, d) == [n \in Nodes |-> IF n \in live THEN f[n] ELSE d]

CollectAll(h, live) ==
    [h EXCEPT !.left = Keep(live, h.left, Null), !.right = Keep(live, h.right, Null),
              !.parent = Keep(live, h.parent, Null), !.height = Keep(live, h.height, 0),
              !.number_below = Keep(live, h.number_below, 0),
              !.nodekey = Keep(live, h.nodekey, NoKey)]

Collect(h) == CollectAll(h, LiveOf(h))

InstallFields(g) ==
    /\ root' = g.root
    /\ left' = g.left
    /\ right' = g.right
    /\ parent' = g.parent
    /\ height' = g.height
    /\ number_below' = g.number_below
    /\ nodekey' = g.nodekey

Install(h) == InstallFields(Collect(h))

Raise(h, e) == [h EXCEPT !.err = e]

\* height(node): -1 for None, the cached attribute otherwise.
HeightOf(h, n) == IF n = Null THEN -1 ELSE h.height[n]

update_height(h, n) ==
    [h EXCEPT !.height[n] = Max(HeightOf(h, h.right[n]), HeightOf(h, h.left[n])) + 1]

NumberBelow(h, r, l) ==
    IF r # Null /\ l # Null THEN h.number_below[l] + h.number_below[r] + 2
    ELSE IF r # Null THEN h.number_below[r] + 1
    ELSE IF l # Null THEN h.number_below[l] + 1
    ELSE 0

update_number_below(h, n) ==
    [h EXCEPT !.number_below[n] = NumberBelow(h, h.right[n], h.left[n])]

UpdateBoth(h, n) == update_number_below(update_height(h, n), n)

\* ------------------------------------------------------------ rotations
\* Each statement of a method is an operator from the heap before it to the
\* heap after it; a method is the composition of its statements, in order.

\* c.parent = p.parent, then p's old parent adopts c in p's place (lines
\* 252-260, 275-282).
Reparent(h, c, p) == [h EXCEPT !.parent[c] = h.parent[p]]

Adopt(h, c, p) ==
    IF h.parent[c] = Null THEN [h EXCEPT !.root = c]
    ELSE IF h.left[h.parent[c]] = p THEN [h EXCEPT !.left[h.parent[c]] = c]
    ELSE IF h.right[h.parent[c]] = p THEN [h EXCEPT !.right[h.parent[c]] = c]
    ELSE h

\* x.right = y.left, and its parent link (lines 261-263).
MoveLeftOf(h, x, y) == [h EXCEPT !.right[x] = h.left[y]]
OwnRight(h, x) == IF h.right[x] # Null THEN [h EXCEPT !.parent[h.right[x]] = x] ELSE h
\* y.left = x; x.parent = y (lines 264-265).
HangLeft(h, x, y) == [h EXCEPT !.left[y] = x, !.parent[x] = y]

LeftRotateAt(h, x, y) ==
    UpdateBoth(UpdateBoth(
        HangLeft(OwnRight(MoveLeftOf(Adopt(Reparent(h, y, x), y, x), x, y), x), x, y),
        x), y)

left_rotate(h, x) ==
    IF h.right[x] = Null THEN Raise(h, AttributeError)      \* y.parent of None
    ELSE LeftRotateAt(h, x, h.right[x])

\* y.left = x.right, and its parent link (lines 283-285).
MoveRightOf(h, y, x) == [h EXCEPT !.left[y] = h.right[x]]
OwnLeft(h, y) == IF h.left[y] # Null THEN [h EXCEPT !.parent[h.left[y]] = y] ELSE h
\* x.right = y; y.parent = x (lines 286-287).
HangRight(h, y, x) == [h EXCEPT !.right[x] = y, !.parent[y] = x]

RightRotateAt(h, y, x) ==
    UpdateBoth(UpdateBoth(
        HangRight(OwnLeft(MoveRightOf(Adopt(Reparent(h, x, y), x, y), y, x), y), y, x),
        y), x)

right_rotate(h, y) ==
    IF h.left[y] = Null THEN Raise(h, AttributeError)       \* x.parent of None
    ELSE RightRotateAt(h, y, h.left[y])

\* The second of two rotations does not run when the first raised.
ThenRight(h, n) == IF h.err # NoErr THEN h ELSE right_rotate(h, n)
ThenLeft(h, n) == IF h.err # NoErr THEN h ELSE left_rotate(h, n)

\* ------------------------------------------------------------ rebalance
\* The tests and rotations of one pass of the loop (lines 302-314).
RotateAt(h, node) ==
    IF h.left[node] = Null /\ h.right[node] = Null THEN h
    ELSE IF HeightOf(h, h.left[node]) >= 2 + HeightOf(h, h.right[node]) THEN
        IF h.left[node] = Null THEN Raise(h, AttributeError)
        ELSE IF HeightOf(h, h.left[h.left[node]]) >= HeightOf(h, h.right[h.left[node]])
             THEN right_rotate(h, node)
             ELSE ThenRight(left_rotate(h, h.left[node]), node)
    ELSE IF HeightOf(h, h.right[node]) >= 2 + HeightOf(h, h.left[node]) THEN
        IF h.right[node] = Null THEN Raise(h, AttributeError)
        ELSE IF HeightOf(h, h.right[h.right[node]]) >= HeightOf(h, h.left[h.right[node]])
             THEN left_rotate(h, node)
             ELSE ThenLeft(right_rotate(h, h.right[node]), node)
    ELSE h

\* One pass of the while loop's body at node (lines 300-314).
RebalanceAt(h, node) == RotateAt(UpdateBoth(h, node), node)

RECURSIVE RebalanceLoop(_, _, _)
\* node = node.parent (line 315), unless a rotation raised.
RebalanceNext(h, node, fuel) ==
    IF h.err # NoErr THEN h ELSE RebalanceLoop(h, h.parent[node], fuel - 1)

RebalanceLoop(h, node, fuel) ==
    IF node = Null THEN h
    ELSE IF fuel = 0 THEN Raise(h, NonTermination)
    ELSE RebalanceNext(RebalanceAt(h, node), node, fuel)

rebalance(h, node) == RebalanceLoop(h, node, LoopFuel)

\* ------------------------------------------------------------ add
\* The descent of add (lines 198-213): links new below the first free place.
RECURSIVE AddDescend(_, _, _, _, _)
AddDescend(h, node, new, key, fuel) ==
    IF fuel = 0 THEN Raise(h, NonTermination)
    ELSE IF KeyLt(key, h.nodekey[node]) THEN
        IF h.left[node] = Null
        THEN [h EXCEPT !.left[node] = new, !.parent[new] = node]
        ELSE AddDescend(h, h.left[node], new, key, fuel - 1)
    ELSE
        IF h.right[node] = Null
        THEN [h EXCEPT !.right[node] = new, !.parent[new] = node]
        ELSE AddDescend(h, h.right[node], new, key, fuel - 1)

\* The identity of the next object: the first one nothing references.
NewNode(h) == CHOOSE n \in Nodes \ LiveOf(h) : \A m \in Nodes \ LiveOf(h) : n <= m

\* BSTnode(key): a new object with its three links None (lines 145-152).
BSTnode(h, new, key) ==
    [h EXCEPT !.nodekey[new] = key, !.left[new] = Null,
              !.right[new] = Null, !.parent[new] = Null]

\* Lines 195-213: the new node becomes the root or is linked below a leaf.
AddLink(h, new, key) ==
    IF h.root = Null THEN [h EXCEPT !.root = new]
    ELSE AddDescend(h, h.root, new, key, LoopFuel)

AddRebalance(h, new) == IF h.err # NoErr THEN h ELSE rebalance(h, new)

AddNode(h, new, key) == AddRebalance(AddLink(BSTnode(h, new, key), new, key), new)

add(h, key) == AddNode(h, NewNode(h), key)

\* ------------------------------------------------------------ find
\* The node found, Null for none, -1 when the loop does not end.
RECURSIVE FindLoop(_, _, _, _)
FindLoop(h, node, key, fuel) ==
    IF node = Null THEN Null
    ELSE IF fuel = 0 THEN -1
    ELSE IF KeyEq(key, h.nodekey[node]) THEN node
    ELSE IF KeyLt(key, h.nodekey[node]) THEN FindLoop(h, h.left[node], key, fuel - 1)
    ELSE FindLoop(h, h.right[node], key, fuel - 1)

find(h, key) == FindLoop(h, h.root, key, LoopFuel)

\* ------------------------------------------------------------ pop_node
disconnect(h, n) ==
    [h EXCEPT !.left[n] = Null, !.right[n] = Null, !.parent[n] = Null]

\* Lines 237-242: node.right takes node's place, always as the LEFT child of
\* node's parent, or as the root.
Unlink(h, node) ==
    IF h.parent[node] # Null THEN [h EXCEPT !.left[h.parent[node]] = h.right[node]]
    ELSE [h EXCEPT !.root = h.right[node]]

\* Lines 243-245.
RelinkRight(h, node) ==
    IF h.right[node] # Null THEN [h EXCEPT !.parent[h.right[node]] = h.parent[node]]
    ELSE h

\* Line 247, which an exception in rebalance skips.
PopDisconnect(h, node) == IF h.err # NoErr THEN h ELSE disconnect(h, node)

\* Lines 235-248 for the node found; p is node.parent as read on line 235.
PopFound(h, node, p) ==
    PopDisconnect(rebalance(RelinkRight(Unlink(h, node), node), p), node)

PopAt(h, node) ==
    IF node = -1 THEN Raise(h, NonTermination)
    ELSE IF node = Null THEN Raise(h, AttributeError)   \* node.parent of None
    ELSE PopFound(h, node, h.parent[node])

pop_node(h, key) == PopAt(h, find(h, key))

\* ------------------------------------------------------------ list, count
\* data is the attribute self.data that list and count read (lines 334, 339).
\* RangeIndex.__init__ (line 186) creates root only and no method of the
\* class assigns data: has says whether the attribute exists.
InRange(items, first_key, last_key) ==
    SelectSeq(items, LAMBDA k : KeyLe(first_key, k) /\ KeyLe(k, last_key))

list(d, first_key, last_key) ==
    IF ~d.has THEN [err |-> AttributeError, val |-> <<>>]
    ELSE [err |-> NoErr, val |-> InRange(d.items, first_key, last_key)]

count(d, first_key, last_key) ==
    IF ~d.has THEN [err |-> AttributeError, val |-> 0]
    ELSE [err |-> NoErr, val |-> Len(InRange(d.items, first_key, last_key))]

\* ------------------------------------------------------------ LCA
\* The else branch (line 324) compares node with node.right and assigns
\* nothing, so the loop repeats on the same node for ever.
RECURSIVE LCALoop(_, _, _, _, _)
LCALoop(h, node, low, high, fuel) ==
    IF node = Null THEN [err |-> NoErr, val |-> NoKey]
    ELSE IF ~(KeyLe(low, h.nodekey[node]) /\ KeyLe(h.nodekey[node], high))
    THEN [err |-> NoErr, val |-> h.nodekey[node]]
    ELSE IF h.left[node] = Null THEN [err |-> AttributeError, val |-> NoKey]
    ELSE IF fuel = 0 THEN [err |-> NonTermination, val |-> NoKey]
    ELSE IF KeyLt(low, h.nodekey[h.left[node]])
         THEN LCALoop(h, h.left[node], low, high, fuel - 1)
         ELSE [err |-> NonTermination, val |-> NoKey]

LCA(h, low, high) == LCALoop(h, h.root, low, high, LoopFuel)

\* ------------------------------------------------------------ actions
\* Query bounds: the sentinels the sweep queries with (lines 528-529).
LowBounds == {KeyWirePairL(k) : k \in Coords}
HighBounds == {KeyWirePairH(k) : k \in Coords}

\* What a call left behind: the operation, what it raised, and what it returned:
\* keys (a node's key or a list of keys; empty for None), a number or a truth
\* value.
Result(op, err) == [op |-> op, err |-> err, keys |-> <<>>, num |-> 0, flag |-> FALSE]
Returned(key) == IF key = NoKey THEN <<>> ELSE <<key>>

\* An object of an untraced class has no trace attribute.
NoTrace == [has |-> FALSE, items |-> <<>>]

Init ==
    /\ root = Null
    /\ left = [n \in Nodes |-> Null]
    /\ right = [n \in Nodes |-> Null]
    /\ parent = [n \in Nodes |-> Null]
    /\ height = [n \in Nodes |-> 0]
    /\ number_below = [n \in Nodes |-> 0]
    /\ nodekey = [n \in Nodes |-> NoKey]
    /\ data = [has |-> FALSE, items |-> <<>>]
    /\ wires = {}
    /\ next_id = 0
    /\ made = FALSE
    /\ events = <<>>
    /\ performed = FALSE
    /\ crossings = <<>>
    /\ trace = NoTrace
    /\ ret = Result("init", NoErr)

Add(key) ==
    /\ Cardinality(LiveOf(Heap)) < MaxNodes
    /\ Install(add(Heap, key))
    /\ ret' = Result("add", add(Heap, key).err)
    /\ UNCHANGED <<data, lvars, cvars>>

PopNode(key) ==
    /\ Install(pop_node(Heap, key))
    /\ ret' = [Result("pop_node", pop_node(Heap, key).err) EXCEPT
                   !.keys = IF pop_node(Heap, key).err = NoErr THEN <<key>> ELSE <<>>]
    /\ UNCHANGED <<data, lvars, cvars>>

Find(key) ==
    /\ ret' = [Result("find", IF find(Heap, key) = -1 THEN NonTermination ELSE NoErr) EXCEPT
                   !.keys = IF find(Heap, key) > Null THEN <<nodekey[find(Heap, key)]>> ELSE <<>>]
    /\ UNCHANGED <<ivars, lvars, cvars>>

List(lo, hi) ==
    /\ KeyLe(lo, hi)
    /\ ret' = [Result("list", list(data, lo, hi).err) EXCEPT !.keys = list(data, lo, hi).val]
    /\ UNCHANGED <<ivars, lvars, cvars>>

Count(lo, hi) ==
    /\ KeyLe(lo, hi)
    /\ ret' = [Result("count", count(data, lo, hi).err) EXCEPT !.num = count(data, lo, hi).val]
    /\ UNCHANGED <<ivars, lvars, cvars>>

Lca(lo, hi) ==
    /\ KeyLe(lo, hi)
    /\ ret' = [Result("LCA", LCA(Heap, lo, hi).err) EXCEPT !.keys = Returned(LCA(Heap, lo, hi).val)]
    /\ UNCHANGED <<ivars, lvars, cvars>>

Next ==
    \/ \E key \in Keys : Add(key)
    \/ \E key \in Keys : PopNode(key)
    \/ \E key \in Keys : Find(key)
    \/ \E lo \in LowBounds, hi \in HighBounds : List(lo, hi)
    \/ \E lo \in LowBounds, hi \in HighBounds : Count(lo, hi)
    \/ \E lo \in LowBounds, hi \in HighBounds : Lca(lo, hi)

Spec == Init /\ [][Next]_vars

\* ------------------------------------------------------------ Wire
\* Wire.__init__ up to the assignment of object_id (lines 33-42).
Wire(name, x1, y1, x2, y2, id) ==
    [name |-> name,
     x1 |-> IF x1 > x2 THEN x2 ELSE x1, y1 |-> IF y1 > y2 THEN y2 ELSE y1,
     x2 |-> IF x1 > x2 THEN x1 ELSE x2, y2 |-> IF y1 > y2 THEN y1 ELSE y2,
     object_id |-> id]

is_horizontal(w) == w.y1 = w.y2
is_vertical(w) == w.x1 = w.x2

\* intersects with the horizontal wire's x-span taken open: a wire that only
\* touches an end of the other does not cross it.
intersects_open(self, other_wire) ==
    IF is_horizontal(self) = is_horizontal(other_wire) THEN FALSE
    ELSE LET h == IF is_horizontal(self) THEN self ELSE other_wire
             v == IF is_horizontal(self) THEN other_wire ELSE self
         IN  v.y1 <= h.y1 /\ h.y1 <= v.y2 /\ h.x1 < v.x1 /\ v.x1 < h.x2

intersects(self, other_wire) ==
    IF is_horizontal(self) = is_horizontal(other_wire) THEN FALSE
    ELSE LET h == IF is_horizontal(self) THEN self ELSE other_wire
             v == IF is_horizontal(self) THEN other_wire ELSE self
         IN  v.y1 <= h.y1 /\ h.y1 <= v.y2 /\ h.x1 <= v.x1 /\ v.x1 <= h.x2

\* ------------------------------------------------------------ WireLayer
\* add_wire: the layer and the id counter afterwards, and what was raised.
\* A rejected name constructs no Wire; a rejected geometry has taken its id.
\* A constructor without the validity test: the wire is kept whatever its
\* endpoints.
RegisterAny(ws, nid, w) == [wires |-> ws \cup {w}, next_id |-> nid + 1, err |-> NoErr]

Register(ws, nid, w) ==
    IF ~(is_horizontal(w) \/ is_vertical(w))
    THEN [wires |-> ws, next_id |-> nid + 1, err |-> ValueError]
    ELSE [wires |-> ws \cup {w}, next_id |-> nid + 1, err |-> NoErr]

add_wire(ws, nid, name, x1, y1, x2, y2) ==
    IF \E w \in ws : w.name = name
    THEN [wires |-> ws, next_id |-> nid, err |-> ValueError]
    ELSE Register(ws, nid, Wire(name, x1, y1, x2, y2, nid))

\* ------------------------------------------------------------ CrossVerifier
MinX1(ws) == CHOOSE x \in {w.x1 : w \in ws} : \A w \in ws : x <= w.x1

\* _events_from_layer: every horizontal wire is added at the layer's left
\* edge, every other wire queried at its x.
EventsAt(ws, left_edge) ==
    {IF is_horizontal(w)
     THEN [x |-> left_edge, kind |-> 0, object_id |-> w.object_id,
           type |-> "add", wire |-> w]
     ELSE [x |-> w.x1, kind |-> 1, object_id |-> w.object_id,
           type |-> "query", wire |-> w] : w \in ws}

events_from_layer(ws) == EventsAt(ws, MinX1(ws))

\* The order of list.sort on the event lists: by x, then kind, then object_id
\* (which no two events share).
EventLt(a, b) ==
    \/ a.x < b.x
    \/ a.x = b.x /\ a.kind < b.kind
    \/ a.x = b.x /\ a.kind = b.kind /\ a.object_id < b.object_id

FirstEvent(S) == CHOOSE e \in S : \A f \in S \ {e} : EventLt(e, f)

RECURSIVE SortEvents(_)
SortEvents(S) ==
    IF S = {} THEN <<>>
    ELSE <<FirstEvent(S)>> \o SortEvents(S \ {FirstEvent(S)})

\* ResultSet.add_crossing: the two names in sorted order.
SortedNames(a, b) == IF a <= b THEN <<a, b>> ELSE <<b, a>>

RECURSIVE AddCrossings(_, _, _)
AddCrossings(cr, wire, cross_wires) ==
    IF cross_wires = <<>> THEN cr
    ELSE AddCrossings(Append(cr, SortedNames(wire.name, Head(cross_wires).name)),
                      wire, Tail(cross_wires))

\* The wire a key was built for (kwp.wire).
WireOf(ws, kwp) == CHOOSE w \in ws : w.object_id = kwp.wire_id

RECURSIVE CrossWires(_, _, _)
CrossWires(ws, wire, kwps) ==
    IF kwps = <<>> THEN <<>>
    ELSE (IF intersects(wire, WireOf(ws, Head(kwps)))
          THEN <<WireOf(ws, Head(kwps))>> ELSE <<>>)
         \o CrossWires(ws, wire, Tail(kwps))

\* The sweep state st: the index's heap h and data d, the count n, the result
\* set cr, and what was raised.
AfterAdd(st, h) == [st EXCEPT !.h = h, !.err = h.err]

Record(st, wire, cross_wires, count_only) ==
    IF count_only THEN [st EXCEPT !.n = st.n + Len(cross_wires)]
    ELSE [st EXCEPT !.cr = AddCrossings(st.cr, wire, cross_wires)]

AfterList(st, ws, wire, r, count_only) ==
    IF r.err # NoErr THEN [st EXCEPT !.err = r.err]
    ELSE Record(st, wire, CrossWires(ws, wire, r.val), count_only)

\* One event of the loop of _compute_crossings (lines 521-536).
SweepEvent(st, ws, ev, count_only) ==
    IF ev.type = "add"
    THEN AfterAdd(st, add(st.h, KeyWirePair(ev.wire.y1, ev.wire.object_id)))
    ELSE AfterList(st, ws, ev.wire,
                   list(st.d, KeyWirePairL(ev.wire.y1), KeyWirePairH(ev.wire.y2)),
                   count_only)

RECURSIVE SweepFrom(_, _, _, _, _)
SweepFrom(st, ws, evs, i, count_only) ==
    IF i > Len(evs) \/ st.err # NoErr THEN st
    ELSE SweepFrom(SweepEvent(st, ws, evs[i], count_only), ws, evs, i + 1, count_only)

compute_crossings(count_only) ==
    SweepFrom([h |-> Heap, d |-> data, n |-> 0, cr |-> crossings, err |-> NoErr],
              wires, events, 1, count_only)

\* ------------------------------------------------------------ actions
Xs == 0..MaxX
Ys == 0..MaxY
\* The name of the next wire, or a name the layer already has.
NamesToTry == {Cardinality(wires) + 1} \cup {w.name : w \in wires}

AddWire(name, x1, y1, x2, y2) ==
    /\ ~made
    /\ next_id < MaxWireCalls
    /\ wires' = add_wire(wires, next_id, name, x1, y1, x2, y2).wires
    /\ next_id' = add_wire(wires, next_id, name, x1, y1, x2, y2).next_id
    /\ ret' = Result("add_wire", add_wire(wires, next_id, name, x1, y1, x2, y2).err)
    /\ UNCHANGED <<ivars, cvars>>

Intersects(a, b) ==
    /\ ~made
    /\ ret' = [Result("intersects", NoErr) EXCEPT !.flag = intersects(a, b)]
    /\ UNCHANGED <<ivars, lvars, cvars>>

\* CrossVerifier(layer): min() of an empty layer raises before anything is
\* built.
NewVerifier ==
    /\ ~made
    /\ IF wires = {}
       THEN /\ ret' = Result("CrossVerifier", ValueError)
            /\ UNCHANGED <<ivars, cvars>>
       ELSE /\ made' = TRUE
            /\ events' = SortEvents(events_from_layer(wires))
            /\ Install([Heap EXCEPT !.root = Null])
            /\ data' = [has |-> FALSE, items |-> <<>>]
            /\ crossings' = <<>>
            /\ performed' = FALSE
            /\ trace' = NoTrace
            /\ ret' = Result("CrossVerifier", NoErr)
    /\ UNCHANGED lvars

\* The verifier after the sweep ended in st, and what the call returned.
Swept(op, st, count_only) ==
    /\ Install(st.h)
    /\ data' = st.d
    /\ crossings' = st.cr
    /\ ret' = [Result(op, st.err) EXCEPT
                   !.num = IF st.err = NoErr /\ count_only THEN st.n ELSE 0]

\* count_crossings and wire_crossings: a bare raise when already performed.
Crossings(op, count_only) ==
    /\ IF performed
       THEN /\ ret' = Result(op, RuntimeError)
            /\ UNCHANGED <<ivars, cvars>>
       ELSE /\ performed' = TRUE
            /\ Swept(op, compute_crossings(count_only), count_only)
            /\ UNCHANGED <<made, events, trace>>
    /\ UNCHANGED lvars

CountCrossings ==
    /\ made
    /\ Crossings("count_crossings", TRUE)

WireCrossings ==
    /\ made
    /\ Crossings("wire_crossings", FALSE)

\* The layer and the verifier built on it.
NextSweep ==
    \/ \E name \in NamesToTry, x1, x2 \in Xs, y1, y2 \in Ys : AddWire(name, x1, y1, x2, y2)
    \/ NewVerifier
    \/ CountCrossings
    \/ WireCrossings

SpecSweep == Init /\ [][NextSweep]_vars

\* The layer's wires and the geometry tests on them.
NextWire ==
    \/ \E name \in NamesToTry, x1, x2 \in Xs, y1, y2 \in Ys : AddWire(name, x1, y1, x2, y2)
    \/ \E a, b \in wires : Intersects(a, b)

SpecWire == Init /\ [][NextWire]_vars

\* ------------------------------------------------------------ tracing
\* One entry of the trace: its type and the values it carries (a wire's name
\* or the sweep's x in a, a second name or bound in b, a list of names in ids).
Entry(type, a, b, ids) == [type |-> type, a |-> a, b |-> b, ids |-> ids]
Traced(tr, e) == [tr EXCEPT !.items = Append(tr.items, e)]
NamesOf(ws, kwps) == [i \in DOMAIN kwps |-> WireOf(ws, kwps[i]).name]

\* TracedResultSet.add_crossing: one trace entry for each crossing recorded.
RECURSIVE TraceCrossings(_, _, _)
TraceCrossings(tr, wire, cross_wires) ==
    IF cross_wires = <<>> THEN tr
    ELSE TraceCrossings(Traced(tr, Entry("crossing", wire.name, Head(cross_wires).name, <<>>)),
                        wire, Tail(cross_wires))

TracedRecord(st, wire, cross_wires, count_only) ==
    IF count_only THEN Record(st, wire, cross_wires, count_only)
    ELSE [Record(st, wire, cross_wires, count_only) EXCEPT
              !.tr = TraceCrossings(st.tr, wire, cross_wires)]

\* TracedRangeIndex.list inside the sweep: the entry is appended after
\* RangeIndex.list returned.
TracedAfterList(st, ws, wire, r, count_only) ==
    IF r.err # NoErr THEN [st EXCEPT !.err = r.err]
    ELSE TracedRecord([st EXCEPT !.tr = Traced(st.tr, Entry("list", wire.y1, wire.y2,
                                                           NamesOf(ws, r.val)))],
                      wire, CrossWires(ws, wire, r.val), count_only)

TraceOf(st, e) == [st EXCEPT !.tr = Traced(st.tr, e)]

\* One event of the loop with the traced index, result set and sweep line.
TracedSweepEvent(st, ws, ev, count_only) ==
    IF ev.type = "add"
    THEN AfterAdd(TraceOf(st, Entry("add", ev.wire.name, 0, <<>>)),
                  add(st.h, KeyWirePair(ev.wire.y1, ev.wire.object_id)))
    ELSE TracedAfterList(TraceOf(st, Entry("sweep", ev.x, 0, <<>>)), ws, ev.wire,
                         list(st.d, KeyWirePairL(ev.wire.y1), KeyWirePairH(ev.wire.y2)),
                         count_only)

RECURSIVE TracedSweepFrom(_, _, _, _, _)
TracedSweepFrom(st, ws, evs, i, count_only) ==
    IF i > Len(evs) \/ st.err # NoErr THEN st
    ELSE TracedSweepFrom(TracedSweepEvent(st, ws, evs[i], count_only),
                         ws, evs, i + 1, count_only)

traced_compute_crossings(count_only) ==
    TracedSweepFrom([h |-> Heap, d |-> data, n |-> 0, cr |-> crossings, err |-> NoErr,
                     tr |-> trace],
                    wires, events, 1, count_only)

\* TracedRangeIndex(trace) on its own.
NewTracedIndex ==
    /\ ~made
    /\ ~trace.has
    /\ Install([Heap EXCEPT !.root = Null])
    /\ data' = [has |-> FALSE, items |-> <<>>]
    /\ trace' = [has |-> TRUE, items |-> <<>>]
    /\ ret' = Result("TracedRangeIndex", NoErr)
    /\ UNCHANGED <<lvars, made, events, performed, crossings>>

\* The calls on the index alone; a key's wire is named by its id.
OnTracedIndex == trace.has /\ ~made /\ Len(trace.items) < MaxTrace

TracedAdd(key) ==
    /\ OnTracedIndex
    /\ Cardinality(LiveOf(Heap)) < MaxNodes
    /\ trace' = Traced(trace, Entry("add", key.wire_id, 0, <<>>))
    /\ Install(add(Heap, key))
    /\ ret' = Result("add", add(Heap, key).err)
    /\ UNCHANGED <<data, lvars, made, events, performed, crossings>>

\* remove appends its entry and calls RangeIndex.remove, which the class does
\* not have.
TracedRemove(key) ==
    /\ OnTracedIndex
    /\ trace' = Traced(trace, Entry("delete", key.wire_id, 0, <<>>))
    /\ ret' = Result("remove", AttributeError)
    /\ UNCHANGED <<ivars, lvars, made, events, performed, crossings>>

TracedList(lo, hi) ==
    /\ OnTracedIndex
    /\ KeyLe(lo, hi)
    /\ trace' = IF list(data, lo, hi).err # NoErr THEN trace
                ELSE Traced(trace, Entry("list", lo.key, hi.key,
                                         [i \in DOMAIN list(data, lo, hi).val |->
                                              list(data, lo, hi).val[i].wire_id]))
    /\ ret' = [Result("list", list(data, lo, hi).err) EXCEPT !.keys = list(data, lo, hi).val]
    /\ UNCHANGED <<ivars, lvars, made, events, performed, crossings>>

TracedCount(lo, hi) ==
    /\ OnTracedIndex
    /\ KeyLe(lo, hi)
    /\ trace' = IF count(data, lo, hi).err # NoErr THEN trace
                ELSE Traced(trace, Entry("list", lo.key, hi.key, <<count(data, lo, hi).val>>))
    /\ ret' = [Result("count", count(data, lo, hi).err) EXCEPT !.num = count(data, lo, hi).val]
    /\ UNCHANGED <<ivars, lvars, made, events, performed, crossings>>

\* TracedCrossVerifier(layer): CrossVerifier.__init__, then the trace and the
\* traced index and result set.
NewTracedVerifier ==
    /\ ~made
    /\ IF wires = {}
       THEN /\ ret' = Result("TracedCrossVerifier", ValueError)
            /\ UNCHANGED <<ivars, cvars>>
       ELSE /\ made' = TRUE
            /\ events' = SortEvents(events_from_layer(wires))
            /\ Install([Heap EXCEPT !.root = Null])
            /\ data' = [has |-> FALSE, items |-> <<>>]
            /\ crossings' = <<>>
            /\ performed' = FALSE
            /\ trace' = [has |-> TRUE, items |-> <<>>]
            /\ ret' = Result("TracedCrossVerifier", NoErr)
    /\ UNCHANGED lvars

TracedCrossings(op, count_only) ==
    /\ IF performed
       THEN /\ ret' = Result(op, RuntimeError)
            /\ UNCHANGED <<ivars, cvars>>
       ELSE /\ performed' = TRUE
            /\ Swept(op, traced_compute_crossings(count_only), count_only)
            /\ trace' = traced_compute_crossings(count_only).tr
            /\ UNCHANGED <<made, events>>
    /\ UNCHANGED lvars

TracedCountCrossings ==
    /\ made
    /\ trace.has
    /\ TracedCrossings("count_crossings", TRUE)

TracedWireCrossings ==
    /\ made
    /\ trace.has
    /\ TracedCrossings("wire_crossings", FALSE)

\* The layer, the traced verifier built on it, and a traced index on its own.
NextTraced ==
    \/ \E name \in NamesToTry, x1, x2 \in Xs, y1, y2 \in Ys : AddWire(name, x1, y1, x2, y2)
    \/ NewTracedIndex
    \/ \E key \in Keys : TracedAdd(key)
    \/ \E key \in Keys : TracedRemove(key)
    \/ \E lo \in LowBounds, hi \in HighBounds : TracedList(lo, hi)
    \/ \E lo \in LowBounds, hi \in HighBounds : TracedCount(lo, hi)
    \/ NewTracedVerifier
    \/ TracedCountCrossings
    \/ TracedWireCrossings

SpecTraced == Init /\ [][NextTraced]_vars

\* ------------------------------------------------------------ key comparisons
\* The keys two of which are compared: the keys of the wires, keys of wires
\* constructed so late that their ids are next to the high sentinel's, and
\* the sentinels of the queries.
FarIds == {HighWireId - 1, HighWireId, HighWireId + 1}
RealKeys == Keys \cup {KeyWirePair(c, id) : c \in Coords, id \in FarIds}
ComparedKeys == RealKeys \cup LowBounds \cup HighBounds

\* What a comparison leaves: its two operands and its answer.
Compared(op, a, b, r) == [Result(op, NoErr) EXCEPT !.keys = <<a, b>>, !.flag = r]

CompareLt(a, b) ==
    /\ ret' = Compared("__lt__", a, b, KeyLt(a, b))
    /\ UNCHANGED <<ivars, lvars, cvars>>

CompareLe(a, b) ==
    /\ ret' = Compared("__le__", a, b, KeyLe(a, b))
    /\ UNCHANGED <<ivars, lvars, cvars>>

CompareGt(a, b) ==
    /\ ret' = Compared("__gt__", a, b, KeyGt(a, b))
    /\ UNCHANGED <<ivars, lvars, cvars>>

CompareGe(a, b) ==
    /\ ret' = Compared("__ge__", a, b, KeyGe(a, b))
    /\ UNCHANGED <<ivars, lvars, cvars>>

CompareEq(a, b) ==
    /\ ret' = Compared("__eq__", a, b, KeyEq(a, b))
    /\ UNCHANGED <<ivars, lvars, cvars>>

CompareNe(a, b) ==
    /\ ret' = Compared("__ne__", a, b, KeyNe(a, b))
    /\ UNCHANGED <<ivars, lvars, cvars>>

NextKeys ==
    \/ \E a, b \in ComparedKeys : CompareLt(a, b)
    \/ \E a, b \in ComparedKeys : CompareLe(a, b)
    \/ \E a, b \in ComparedKeys : CompareGt(a, b)
    \/ \E a, b \in ComparedKeys : CompareGe(a, b)
    \/ \E a, b \in ComparedKeys : CompareEq(a, b)
    \/ \E a, b \in ComparedKeys : CompareNe(a, b)

SpecKeys == Init /\ [][NextKeys]_vars

\* ------------------------------------------------------------ readings
\* The nodes reachable from n over left and right links.
RECURSIVE Grow(_, _)
GrowNext(S, T, fuel) == IF T = S \/ fuel = 0 THEN S ELSE Grow(T, fuel - 1)
Grow(S, fuel) ==
    GrowNext(S, (S \cup {left[n] : n \in S} \cup {right[n] : n \in S}) \ {Null}, fuel)

Sub(n) == IF n = Null THEN {} ELSE Grow({n}, MaxNodes)
Reach == Sub(root)
StoredKeys == {nodekey[n] : n \in Reach}
DistinctKeys == \A m, n \in Reach : m # n => nodekey[m] # nodekey[n]

Ordered ==
    \A n \in Reach :
        /\ \A m \in Sub(left[n]) : KeyLt(nodekey[m], nodekey[n])
        /\ \A m \in Sub(right[n]) : KeyGt(nodekey[m], nodekey[n])

\* The height of the subtree below n as the links give it.
RECURSIVE TrueHeight(_, _)
TrueHeight(n, fuel) ==
    IF n = Null THEN -1
    ELSE IF fuel = 0 THEN MaxNodes
    ELSE 1 + Max(TrueHeight(left[n], fuel - 1), TrueHeight(right[n], fuel - 1))

HeightBelow(n) == TrueHeight(n, MaxNodes + 1)
Balanced == \A n \in Reach : HeightBelow(left[n]) - HeightBelow(right[n]) \in {-1, 0, 1}

\* The cached values: number_below counts the nodes below a node, so the
\* node's subtree holds one more.
CachedHeight(n) == IF n = Null THEN -1 ELSE height[n]
CachedCount(n) == IF n = Null THEN 0 ELSE number_below[n] + 1

IsAscending(q) == \A i \in 1..(Len(q) - 1) : KeyLt(q[i], q[i + 1])
Elements(q) == {q[i] : i \in DOMAIN q}
Within(lo, hi) == {k \in StoredKeys : KeyLe(lo, k) /\ KeyLe(k, hi)}

\* A wire that is horizontal and not vertical, and the reverse: the wires of the
\* data model, which are never points.
Horizontal(w) == is_horizontal(w) /\ ~is_vertical(w)
Vertical(w) == is_vertical(w) /\ ~is_horizontal(w)
\* v's x lies in h's closed x-span and h's y in v's closed y-span.
SpansCross(h, v) ==
    /\ h.x1 <= v.x1 /\ v.x1 <= h.x2
    /\ v.y1 <= h.y1 /\ h.y1 <= v.y2

\* No two wires of the layer overlap collinearly.
Overlap(a, b) ==
    \/ /\ is_horizontal(a) /\ is_horizontal(b) /\ a.y1 = b.y1
       /\ a.x1 <= b.x2 /\ b.x1 <= a.x2
    \/ /\ is_vertical(a) /\ is_vertical(b) /\ a.x1 = b.x1
       /\ a.y1 <= b.y2 /\ b.y1 <= a.y2
NoOverlap == \A a, b \in wires : a # b => ~Overlap(a, b)

\* The crossings of the layer: the name pairs, in sorted order, of the wires
\* that intersect.
Crossing == {p \in wires \X wires : intersects(p[1], p[2])}
TrueCrossings == {SortedNames(p[1].name, p[2].name) : p \in Crossing}
\* The call was made on a fresh verifier: it was not refused as already performed.
FreshCall(op) == ret.op = op /\ ret.err # RuntimeError

\* What wire_crossings records on another fresh verifier for the same layer.
FreshHeap == [Heap EXCEPT !.root = Null]
OtherVerifier ==
    SweepFrom([h |-> FreshHeap, d |-> [has |-> FALSE, items |-> <<>>], n |-> 0,
               cr |-> <<>>, err |-> NoErr],
              wires, SortEvents(events_from_layer(wires)), 1, FALSE)

\* ------------------------------------------------------------ claims

\* C1: for every wire layer without collinear overlap, wire_crossings() on a
\* fresh CrossVerifier succeeds and records exactly the pairs of intersecting
\* wires: every such pair once, as its two names in sorted order, and no other.
C1_WireCrossingsExact ==
    (FreshCall("wire_crossings") /\ NoOverlap) =>
        /\ ret.err = NoErr
        /\ Elements(crossings) = TrueCrossings
        /\ Len(crossings) = Cardinality(TrueCrossings)

\* C2: for every wire layer, count_crossings() on a fresh CrossVerifier returns
\* the number of wire pairs that intersect, which is also the number of pairs
\* wire_crossings() records on another fresh verifier for the same layer.
C2_CountCrossings ==
    FreshCall("count_crossings") =>
        /\ ret.err = NoErr
        /\ ret.num = Cardinality(TrueCrossings)
        /\ OtherVerifier.err = NoErr
        /\ ret.num = Len(OtherVerifier.cr)

\* C3: for every stored key set and bounds lo <= hi, list(lo, hi) returns
\* exactly the stored keys k with lo <= k <= hi, each once, in ascending order.
C3_ListRange ==
    [][\A lo \in LowBounds, hi \in HighBounds :
          List(lo, hi) =>
              /\ ret'.err = NoErr
              /\ IsAscending(ret'.keys)
              /\ Elements(ret'.keys) = Within(lo, hi)]_vars

\* C4: after any sequence of add and pop_node, every key in a node's left
\* subtree is less than the node's key and every key in its right subtree is
\* greater.  Stated for indexes whose nodes hold distinct keys, as the keys
\* of distinct wires are.
C4_InOrderAscending == DistinctKeys => Ordered

\* C5: after any sequence of add and pop_node, the true heights of the two
\* subtrees of every node differ by at most 1.  Stated for distinct keys.
C5_AVLBalanced == DistinctKeys => Balanced

\* C6: after any sequence of add and pop_node, every node's cached height is
\* 1 + max of its children's cached heights (-1 for an absent child), and its
\* cached count is 1 + the counts of its children (0 for an absent child) and
\* is the number of nodes of its subtree.  Stated for distinct keys, and with
\* the count read as number_below + 1.
C6_CachedHeightAndCount ==
    DistinctKeys =>
        \A n \in Reach :
            /\ height[n] = 1 + Max(CachedHeight(left[n]), CachedHeight(right[n]))
            /\ CachedCount(n) = 1 + CachedCount(left[n]) + CachedCount(right[n])
            /\ CachedCount(n) = Cardinality(Sub(n))

\* C7: pop_node of a stored key removes exactly that key: the keys reachable
\* from the root afterwards are those before without it.  Stated for distinct
\* keys.
C7_PopRemovesExactlyKey ==
    [][\A key \in Keys :
          (PopNode(key) /\ key \in StoredKeys /\ DistinctKeys) =>
              /\ ret'.err = NoErr
              /\ StoredKeys' = StoredKeys \ {key}]_vars

\* C8: pop_node of a key that is not stored fails with a KeyNotFoundError and
\* leaves the index unchanged.
C8_PopAbsentKey ==
    [][\A key \in Keys :
          (PopNode(key) /\ key \notin StoredKeys) =>
              /\ ret'.err = "KeyNotFoundError"
              /\ UNCHANGED ivars]_vars

\* C9: add of a key equal to a stored key fails with a DuplicateKeyError and
\* adds no node; add of any other key adds exactly that key.
C9_AddDuplicateKey ==
    [][\A key \in Keys :
          Add(key) =>
              IF key \in StoredKeys
              THEN ret'.err = "DuplicateKeyError" /\ UNCHANGED ivars
              ELSE ret'.err = NoErr /\ StoredKeys' = StoredKeys \cup {key}]_vars

C11_SingleUse ==
    [][((CountCrossings \/ WireCrossings) /\ performed) =>
          /\ ret'.err = "AlreadyPerformedError"
          /\ UNCHANGED <<ivars, crossings>>]_vars

\* C12: a wire with x1 # x2 and y1 # y2 is refused with the constructor's
\* error (ValueError, the InvalidGeometry of the data model), and add_wire
\* with such coordinates leaves the layer's wires as they were: in every
\* layer on which AddWire can act, this is what add_wire hands it.
C12_DiagonalRefused ==
    (~made /\ next_id < MaxWireCalls) =>
        \A name \in NamesToTry, x1, x2 \in Xs, y1, y2 \in Ys :
            (x1 # x2 /\ y1 # y2) =>
                /\ add_wire(wires, next_id, name, x1, y1, x2, y2).err = ValueError
                /\ add_wire(wires, next_id, name, x1, y1, x2, y2).wires = wires

\* The first add_wire of a layer was refused: no name is taken yet, so the
\* refusal is the constructor's, which had drawn an id.
C12_Witness ==
    /\ ret.op = "add_wire"
    /\ ret.err = ValueError
    /\ wires = {}
    /\ next_id = 1

\* C13: tracing is a side channel.  TracedCrossVerifier.wire_crossings()
\* records the crossing pairs CrossVerifier.wire_crossings() records for the
\* layer, in the same order, and each traced add, remove, list and count of a
\* TracedRangeIndex returns what the untraced operation (add, pop_node, list,
\* count) returns and leaves the index as that operation leaves it.
C13_TracingSideChannel ==
    [][/\ (TracedWireCrossings /\ ~performed) =>
              (crossings' = OtherVerifier.cr /\ ret'.err = OtherVerifier.err)
       /\ \A key \in Keys :
              /\ TracedAdd(key) => (ret'.err = add(Heap, key).err /\ Install(add(Heap, key)))
              /\ TracedRemove(key) =>
                     (ret'.err = pop_node(Heap, key).err /\ Install(pop_node(Heap, key)))
       /\ \A lo \in LowBounds, hi \in HighBounds :
              /\ TracedList(lo, hi) =>
                     (ret'.err = list(data, lo, hi).err /\ ret'.keys = list(data, lo, hi).val
                      /\ UNCHANGED ivars)
              /\ TracedCount(lo, hi) =>
                     (ret'.err = count(data, lo, hi).err /\ ret'.num = count(data, lo, hi).val
                      /\ UNCHANGED ivars)]_vars

\* C14: for every index state and every pair of bounds, count(lo, hi) returns
\* the length of what list(lo, hi) returns.
C14_CountIsLenOfList ==
    [][\A lo \in LowBounds, hi \in HighBounds :
          Count(lo, hi) =>
              /\ ret'.err = NoErr
              /\ list(data, lo, hi).err = NoErr
              /\ ret'.num = Len(list(data, lo, hi).val)]_vars

\* The events of the verifier for one wire.
EventsOf(w, type) == {i \in DOMAIN events : events[i].wire = w /\ events[i].type = type}
\* The first query of the sweep, where a sweep that fails stops.
Queries == {i \in DOMAIN events : events[i].type = "query"}
FirstQuery == CHOOSE i \in Queries : \A j \in Queries : i <= j
Active(x) == {KeyWirePair(h.y1, h.object_id) :
                  h \in {w \in wires : is_horizontal(w) /\ w.x1 <= x /\ x <= w.x2}}

\* C15: every horizontal wire has an add event at its own x1 and a matching
\* event at its x2 that removes it, so that at a query at x the index holds
\* exactly the horizontal wires whose x-span contains x.  The index is read
\* where the sweep stood at its first query; the layers are those whose wires
\* are horizontal or vertical and not both.
C15_ActiveAtQuery ==
    (made /\ \A w \in wires : Horizontal(w) \/ Vertical(w)) =>
        /\ \A w \in wires : is_horizontal(w) =>
              /\ \E i \in EventsOf(w, "add") : events[i].x = w.x1
              /\ \E i \in EventsOf(w, "delete") : events[i].x = w.x2
        /\ (performed /\ Queries # {}) => StoredKeys = Active(events[FirstQuery].x)

\* The events the loop of _compute_crossings handles to their end.
RECURSIVE Processed(_, _, _, _, _)
Processed(st, ws, evs, i, count_only) ==
    IF i > Len(evs) THEN Len(evs)
    ELSE IF SweepEvent(st, ws, evs[i], count_only).err # NoErr THEN i - 1
    ELSE Processed(SweepEvent(st, ws, evs[i], count_only), ws, evs, i + 1, count_only)

ProcessedEvents(count_only) ==
    Processed([h |-> Heap, d |-> data, n |-> 0, cr |-> crossings, err |-> NoErr],
              wires, events, 1, count_only)

EventsInOrder ==
    \A i, j \in DOMAIN events : i < j =>
        /\ events[i].x <= events[j].x
        /\ (events[i].x = events[j].x /\ events[i].type = "query") => events[j].type = "query"

\* C16: the sweep handles the events in non-decreasing x order, at equal x
\* every add before every query, and handles each event exactly once: the
\* loop runs over all of them, to the end of each.
C16_EventsInOrderOnce ==
    [][/\ (CountCrossings /\ ~performed) =>
              (EventsInOrder /\ ProcessedEvents(TRUE) = Len(events))
       /\ (WireCrossings /\ ~performed) =>
              (EventsInOrder /\ ProcessedEvents(FALSE) = Len(events))]_vars

\* C17: every wire that was constructed has x1 <= x2 and y1 <= y2 and exactly
\* one of x1 = x2 and y1 = y2: it is not a point and not diagonal, and is not
\* both horizontal and vertical.
C17_WireInvariant ==
    \A w \in wires :
        /\ w.x1 <= w.x2
        /\ w.y1 <= w.y2
        /\ (w.x1 = w.x2) # (w.y1 = w.y2)
        /\ ~(is_horizontal(w) /\ is_vertical(w))

\* The comparison last made and its two operands.
Comparisons == {"__lt__", "__le__", "__gt__", "__ge__", "__eq__", "__ne__"}
Lhs == ret.keys[1]
Rhs == ret.keys[2]

\* The sentinels against the real keys in R: the low sentinel of a key's
\* coordinate is less than the key and the high sentinel greater, and a key
\* is within [KeyWirePairL(y1), KeyWirePairH(y2)], as list and count test it,
\* exactly when its coordinate is within [y1, y2].
SentinelsBound(R) ==
    ret.op \in Comparisons =>
        /\ (ret.op = "__lt__" /\ Lhs \in LowBounds /\ Rhs \in R /\ Lhs.key = Rhs.key) => ret.flag
        /\ (ret.op = "__gt__" /\ Lhs \in HighBounds /\ Rhs \in R /\ Lhs.key = Rhs.key) => ret.flag
        /\ (ret.op = "__le__" /\ Lhs \in LowBounds /\ Rhs \in R) =>
               (ret.flag = (Lhs.key <= Rhs.key))
        /\ (ret.op = "__le__" /\ Lhs \in R /\ Rhs \in HighBounds) =>
               (ret.flag = (Lhs.key <= Rhs.key))

C19_TotalOrder ==
    (ret.op \in Comparisons /\ Lhs \in Keys /\ Rhs \in Keys) =>
        /\ Cardinality({r \in {"lt", "eq", "gt"} :
                            \/ r = "lt" /\ KeyLt(Lhs, Rhs)
                            \/ r = "eq" /\ KeyEq(Lhs, Rhs)
                            \/ r = "gt" /\ KeyGt(Lhs, Rhs)}) = 1
        /\ KeyEq(Lhs, Rhs) = (Lhs.key = Rhs.key /\ Lhs.wire_id = Rhs.wire_id)
        /\ Lhs.wire_id # Rhs.wire_id => ~KeyEq(Lhs, Rhs)
        /\ ret.op = "__le__" => (ret.flag = (KeyLt(Lhs, Rhs) \/ KeyEq(Lhs, Rhs)))
        /\ ret.op = "__ge__" => (ret.flag = (KeyGt(Lhs, Rhs) \/ KeyEq(Lhs, Rhs)))
        /\ ret.op = "__ne__" => (ret.flag = ~KeyEq(Lhs, Rhs))

\* The links that lead to c from the nodes of the tree.
LinksTo(c) ==
    {l \in Reach \X {"left", "right"} :
         \/ l[2] = "left" /\ left[l[1]] = c
         \/ l[2] = "right" /\ right[l[1]] = c}

\* C20: after any sequence of add and pop_node, with the rotations they make,
\* the links agree: the root has no parent, the parent of a node's left or
\* right child is that node, every node of the tree is reached by exactly one
\* path, and a removed node is referenced from no node that remains: a node
\* of the tree is the child of its parent, and disconnect has cleared the
\* parent of a removed one.  Stated for indexes whose nodes hold distinct
\* keys.
C20_LinksConsistent ==
    DistinctKeys =>
        /\ root # Null => (parent[root] = Null /\ LinksTo(root) = {})
        /\ \A n \in Reach :
              /\ left[n] # Null => parent[left[n]] = n
              /\ right[n] # Null => parent[right[n]] = n
              /\ n # root => Cardinality(LinksTo(n)) = 1
              /\ parent[n] # Null => (left[parent[n]] = n \/ right[parent[n]] = n)

====
